---- MODULE Spec2Model ----
(***************************************************************************)
(* Model of the Blockchain class of src/src/blockchain.js.                 *)
(*                                                                         *)
(* The class runs on the JavaScript event loop: every `await` and every    *)
(* promise reaction is a microtask, and microtasks run in FIFO order.  The *)
(* model keeps that queue explicitly (`queue`): each action either is a    *)
(* call made by client code (submitStar, validateChain,                    *)
(* getStarsByWalletAddress), which runs the synchronous part of the method *)
(* and enqueues its continuations, or runs the microtask at the head of    *)
(* the queue.  Client code may itself run inside a microtask, so a client  *)
(* call may happen between any two microtasks.                             *)
(***************************************************************************)
EXTENDS Integers, Sequences, FiniteSets, TLC

VARIABLES chain,     \* this.chain: the array of blocks
          height,    \* this.height
          now,       \* the system clock, in seconds
          queue,     \* the microtask queue (FIFO)
          appends,   \* the executions of _addBlock, by id (0 = genesis)
          calls,     \* the submitStar calls and their promises, by id
          vals,      \* the validateChain calls and their errorLog arrays
          queries,   \* the getStarsByWalletAddress calls
          owner      \* owner[i]: the _addBlock execution that pushed chain[i]

vars == <<chain, height, now, queue, appends, calls, vals, queries, owner>>

----------------------------------------------------------------------------
(* Bounds of the model *)

MaxCalls == 3        \* submitStar calls
MaxValidations == 1  \* validateChain calls made by client code
MaxQueries == 1      \* getStarsByWalletAddress calls
MaxTicks == 1        \* clock ticks
MaxTampers == 1      \* blocks written to from outside the class

(* Program constants *)

Now0 == 1000         \* the clock value at construction
Window == 5 * 60     \* the freshness window of submitStar, in seconds

Addresses == {"a1", "a2"}
Stars == {"s1", "s2"}

----------------------------------------------------------------------------
(* JavaScript values *)

Null == [null |-> TRUE]
Undefined == [undefined |-> TRUE]

\* x != y on the values the model compares (null == undefined is true)
LooseNotEqual(x, y) ==
    ~ (x = y \/ (x \in {Null, Undefined} /\ y \in {Null, Undefined}))

NaN == [nan |-> TRUE, val |-> 0]
Number(n) == [nan |-> FALSE, val |-> n]

\* a - b and a <= b on numbers: NaN propagates and compares false
Minus(a, b) == IF a.nan \/ b.nan THEN NaN ELSE Number(a.val - b.val)
LessOrEqual(a, b) == ~a.nan /\ ~b.nan /\ a.val <= b.val

\* the parts of a colon-delimited string: text parts and digit parts
Txt(s) == [num |-> FALSE, val |-> 0, txt |-> s]
Digits(n) == [num |-> TRUE, val |-> n, txt |-> ""]

\* a message argument that is not a string (undefined): it has no split
NoMessage == <<Undefined>>

\* parseInt(message.split(':')[1])
parseInt(parts, i) ==
    IF i <= Len(parts) /\ parts[i].num THEN Number(parts[i].val) ELSE NaN

\* new Date().getTime().toString().slice(0,-3)
currentTime == now

----------------------------------------------------------------------------
(* block.js *)

\* Buffer.from(JSON.stringify(data)).toString('hex') and its inverse
encode(data) == [hex |-> data]
decode(body) == body.hex

Block(data) ==
    [hash |-> Null, height |-> 0, body |-> encode(data), time |-> 0,
     previousBlockHash |-> Null]

\* JSON.stringify(block): the fields in order
stringify(b) == <<b.hash, b.height, b.body, b.time, b.previousBlockHash>>

\* the digest, collision free
SHA256(s) == [sha256 |-> s]

\* block.validate(): recompute the digest of the content without the hash
validate(b) == SHA256(stringify([b EXCEPT !.hash = Null])) = b.hash

\* block.getBData(): the decoded body
getBData(b) == decode(b.body)

GenesisData == [data |-> "Genesis Block"]

----------------------------------------------------------------------------
(* bitcoinjs-message *)

Sign(address, message) == [format |-> "ok", signer |-> address, msg |-> message]
Garbage == [format |-> "bad", signer |-> "", msg |-> <<>>]

\* bitcoinMessage.verify(message, address, signature): true, false or throws
verify(message, address, signature) ==
    IF signature.format # "ok" THEN "throws"
    ELSE IF signature.signer = address /\ signature.msg = message THEN "true"
    ELSE "false"

----------------------------------------------------------------------------
(* Reads *)

getChainHeight == height

getBlockByHeightIn(ch, h) ==
    LET block == SelectSeq(ch, LAMBDA p : p.height = h)
    IN IF block # <<>> THEN block[1] ELSE Null

getBlockByHeight(h) == getBlockByHeightIn(chain, h)

\* a JavaScript array
Array(seq) == [array |-> seq]

\* if (x): an array is truthy, also when empty; null is not
truthy(x) == x # Null /\ x # Undefined

\* lines 167-178
getBlockByHash(hash) ==
    LET block == Array(SelectSeq(chain, LAMBDA p : p.hash = hash))
    IN IF truthy(block) THEN block ELSE Null

requestMessageOwnershipVerification(address, t) ==
    <<Txt(address), Digits(t), Txt("starRegistry")>>

----------------------------------------------------------------------------
(* The microtask queue *)

NoV == <<"none", 0>>

Task(kind, id, v, block, prev, ok) ==
    [kind |-> kind, id |-> id, v |-> v, block |-> block, prev |-> prev,
     ok |-> ok]

\* the _addBlock executions that have started and not yet returned
InFlight == {id \in DOMAIN appends : appends[id].state # "done"}

----------------------------------------------------------------------------
(* validateChain, lines 224-243: the synchronous part.  forEach starts one *)
(* async callback per block; each runs up to `await block.validate()`, and *)
(* then the promise is resolved with the errorLog array.                   *)

validateChainTasks(ch, v) ==
    [i \in 1..Len(ch) |->
        Task("validateBlock", 0, v, ch[i], Null, validate(ch[i]))]

\* the positions of the blocks of ch whose hash is not the digest of their
\* content, and of those whose previousBlockHash is not the hash of the
\* block before them
Defective(ch) == {i \in 1..Len(ch) : ~validate(ch[i])}
Unlinked(ch) == {i \in 2..Len(ch) : ch[i].previousBlockHash # ch[i - 1].hash}

\* the errorLog array, the number of callbacks still to run, and (history)
\* what the caller saw when the promise was delivered and the heights of the
\* blocks that had a defect when the validation started
validateChainLog(ch) ==
    [errorLog |-> <<>>, pending |-> Len(ch), observed |-> FALSE,
     seen |-> <<>>, pendingSeen |-> 0, length |-> Len(ch),
     defective |-> {ch[i].height : i \in Defective(ch)},
     unlinked |-> {ch[i].height : i \in Unlinked(ch)}]

InvalidBlockError(b) == [Error |-> <<"Block", b.height, "is invalid">>]
PreviousHashError(b) ==
    [Error |-> <<"For Block", b.height, "the PreviousBlock hash is invalid">>]

----------------------------------------------------------------------------
(* _addBlock, lines 67-105 *)

InvalidBlock == [string |-> "Invalid block"]

\* addBlockStage without line 83: the block is hashed and pushed unlinked
addBlockStageUnlinked(st, id, block, previousBlockHash) ==
    LET staged == [block EXCEPT !.hash = SHA256(stringify(block))]
        ch == Append(st.chain, staged)
        v == <<"add", id>>
    IN [chain |-> ch,
        height |-> st.height,
        owner |-> Append(st.owner, id),
        vals |-> (v :> validateChainLog(ch)) @@ st.vals,
        tasks |-> validateChainTasks(ch, v)
                    \o <<Task("addBlockValidated", id, v, staged, Null, FALSE)>>,
        state |-> "awaitValidate"]

\* lines 83-91: link, hash, push and start the validation, on the store
\* st = [chain, height, owner, vals]
addBlockStage(st, id, block, previousBlockHash) ==
    LET linked == [block EXCEPT !.previousBlockHash = previousBlockHash]
        staged == [linked EXCEPT !.hash = SHA256(stringify(linked))]
        ch == Append(st.chain, staged)
        v == <<"add", id>>
    IN [chain |-> ch,
        height |-> st.height,
        owner |-> Append(st.owner, id),
        vals |-> (v :> validateChainLog(ch)) @@ st.vals,
        tasks |-> validateChainTasks(ch, v)
                    \o <<Task("addBlockValidated", id, v, staged, Null, FALSE)>>,
        state |-> "awaitValidate"]

\* lines 70-91: the part that runs synchronously inside the caller, at
\* clock value t
addBlockSync(st, t, id, block) ==
    LET currentChainHeight == st.height
        newChainHeight == currentChainHeight + 1
        b == [block EXCEPT !.height = newChainHeight, !.time = t]
    IN IF newChainHeight > 0
       THEN [chain |-> st.chain, owner |-> st.owner, vals |-> st.vals,
             height |-> newChainHeight,
             tasks |-> <<Task("addBlockPrev", id, NoV, b,
                              getBlockByHeightIn(st.chain, currentChainHeight),
                              FALSE)>>,
             state |-> "awaitPrev"]
       ELSE addBlockStage([st EXCEPT !.height = newChainHeight], id, b, Null)

Store == [chain |-> chain, height |-> height, owner |-> owner, vals |-> vals]

\* the record of an _addBlock execution: its position, the value it
\* returned, whether a submitStar promise is chained to its promise, and
\* (history) whether it started with no other execution in flight, and then
\* the length and the tip of the chain and the height at that time
AppendRecord(state, alone, ch, h) ==
    [state |-> state, value |-> Null, linked |-> FALSE, alone |-> alone,
     preLength |-> IF alone THEN Len(ch) ELSE 0,
     preHeight |-> IF alone THEN h ELSE 0,
     preTip |-> IF alone /\ ch # <<>> THEN ch[Len(ch)].hash ELSE Null]

\* the microtasks that a returning _addBlock triggers: the reaction that
\* settles the submitStar promise, if it is already chained to this one
addBlockReturn(id) ==
    IF appends[id].linked
    THEN <<Task("settle", id, NoV, Null, Null, FALSE)>>
    ELSE <<>>

\* line 82-83, continuation of `await this.getBlockByHeight(...)` when the
\* previous block was not found: previousBlock.hash throws, line 101 returns
AddBlockPrevMissing ==
    /\ queue # <<>>
    /\ Head(queue).kind = "addBlockPrev"
    /\ Head(queue).prev = Null
    /\ LET id == Head(queue).id
       IN /\ appends' = [appends EXCEPT ![id].state = "done",
                                        ![id].value = InvalidBlock]
          /\ queue' = Tail(queue) \o addBlockReturn(id)
    /\ UNCHANGED <<chain, height, now, calls, vals, queries, owner>>

\* lines 83-91, continuation of `await this.getBlockByHeight(...)`
AddBlockPrevFound ==
    /\ queue # <<>>
    /\ Head(queue).kind = "addBlockPrev"
    /\ Head(queue).prev # Null
    /\ LET id == Head(queue).id
           r == addBlockStage(Store, id, Head(queue).block,
                              Head(queue).prev.hash)
       IN /\ chain' = r.chain
          /\ owner' = r.owner
          /\ vals' = r.vals
          /\ queue' = Tail(queue) \o r.tasks
          /\ appends' = [appends EXCEPT ![id].state = r.state]
    /\ UNCHANGED <<height, now, calls, queries>>

\* line 94 removing the first element instead of the last
popFirst(array) == SubSeq(array, 2, Len(array))

\* line 94, this.chain.pop()
pop(array) == SubSeq(array, 1, Len(array) - 1)

\* lines 93-98, continuation of `await this.validateChain()`
AddBlockValidated ==
    /\ queue # <<>>
    /\ Head(queue).kind = "addBlockValidated"
    /\ LET id == Head(queue).id
           v == Head(queue).v
           errorLog == vals[v].errorLog
       IN /\ vals' = [vals EXCEPT ![v].observed = TRUE,
                                  ![v].seen = errorLog,
                                  ![v].pendingSeen = vals[v].pending]
          /\ IF Len(errorLog) > 0
             THEN /\ chain' = pop(chain)
                  /\ owner' = pop(owner)
                  /\ height' = height - 1
             ELSE UNCHANGED <<chain, owner, height>>
          /\ appends' = [appends EXCEPT ![id].state = "done",
                                        ![id].value = Head(queue).block]
          /\ queue' = Tail(queue) \o addBlockReturn(id)
    /\ UNCHANGED <<now, calls, queries>>

----------------------------------------------------------------------------
(* validateChain, lines 228-239: the per-block callbacks *)

\* line 229-237, continuation of `await block.validate()`
ValidateBlock ==
    /\ queue # <<>>
    /\ Head(queue).kind = "validateBlock"
    /\ LET t == Head(queue)
           v == t.v
       IN IF t.ok
          THEN IF t.block.height > 0
               THEN \* self.getBlockByHeight(...) is a promise; its .hash
                    \* is undefined, and `await undefined` yields
                    /\ queue' = Tail(queue)
                          \o <<Task("validatePrev", 0, v, t.block, Undefined, FALSE)>>
                    /\ UNCHANGED vals
               ELSE /\ queue' = Tail(queue)
                    /\ vals' = [vals EXCEPT ![v].pending = @ - 1]
          ELSE /\ queue' = Tail(queue)
               /\ vals' = [vals EXCEPT
                             ![v].errorLog = Append(@, InvalidBlockError(t.block)),
                             ![v].pending = @ - 1]
    /\ UNCHANGED <<chain, height, now, appends, calls, queries, owner>>

\* line 231-233, continuation of `await self.getBlockByHeight(...).hash`
ValidatePrev ==
    /\ queue # <<>>
    /\ Head(queue).kind = "validatePrev"
    /\ LET t == Head(queue)
           v == t.v
       IN /\ queue' = Tail(queue)
          /\ IF LooseNotEqual(t.block.previousBlockHash, t.prev)
             THEN vals' = [vals EXCEPT
                             ![v].errorLog = Append(@, PreviousHashError(t.block)),
                             ![v].pending = @ - 1]
             ELSE vals' = [vals EXCEPT ![v].pending = @ - 1]
    /\ UNCHANGED <<chain, height, now, appends, calls, queries, owner>>

\* validateChain() called by client code, which awaits the result
ValidateChain ==
    /\ Cardinality({v \in DOMAIN vals : v[1] = "ext"}) < MaxValidations
    /\ LET v == <<"ext", Cardinality({w \in DOMAIN vals : w[1] = "ext"}) + 1>>
       IN /\ vals' = (v :> validateChainLog(chain)) @@ vals
          /\ queue' = queue \o validateChainTasks(chain, v)
                        \o <<Task("observeReport", 0, v, Null, Null, FALSE)>>
    /\ UNCHANGED <<chain, height, now, appends, calls, queries, owner>>

\* the client's continuation of `await validateChain()`
ObserveReport ==
    /\ queue # <<>>
    /\ Head(queue).kind = "observeReport"
    /\ LET v == Head(queue).v
       IN vals' = [vals EXCEPT ![v].observed = TRUE,
                               ![v].seen = vals[v].errorLog,
                               ![v].pendingSeen = vals[v].pending]
    /\ queue' = Tail(queue)
    /\ UNCHANGED <<chain, height, now, appends, calls, queries, owner>>

----------------------------------------------------------------------------
(* submitStar, lines 138-159 *)

TimeExpired == [error |-> "Time expired (5 min)"]
ValidationError == [error |-> "Validation Error"]

StarData(address, message, signature, star) ==
    [walletAddress |-> address, message |-> message, signature |-> signature,
     star |-> star]

\* line 144 with the window one second too long
isFreshLate(timeStamp, t) ==
    LessOrEqual(Minus(Number(t), timeStamp), Number(Window + 1))

\* line 144
isFresh(timeStamp, t) == LessOrEqual(Minus(Number(t), timeStamp), Number(Window))

submitStar(address, message, signature, star) ==
    LET c == Len(calls) + 1
        timeStamp == parseInt(message, 2)
        call == [address |-> address, message |-> message,
                 signature |-> signature, star |-> star, at |-> currentTime,
                 verification |-> "none", state |-> "pending", value |-> Null,
                 inChain |-> FALSE]
    IN IF message = NoMessage
       THEN \* line 142: message.split throws inside the async executor;
            \* neither resolve nor reject is ever called
            /\ calls' = Append(calls, call)
            /\ UNCHANGED <<chain, height, owner, vals, appends, queue>>
       ELSE IF isFresh(timeStamp, currentTime)
       THEN LET verification == verify(message, address, signature)
                thrown == verification = "throws"
                newBlock == Block(StarData(address, message, signature, star))
                r == addBlockSync(Store, currentTime, c, newBlock)
            IN /\ calls' = Append(calls,
                     [call EXCEPT !.verification = verification,
                                  !.state = IF thrown THEN "rejected" ELSE "pending",
                                  !.value = IF thrown THEN ValidationError ELSE Null])
               /\ chain' = r.chain
               /\ height' = r.height
               /\ owner' = r.owner
               /\ vals' = r.vals
               /\ appends' = (c :> AppendRecord(r.state, InFlight = {}, chain, height)) @@ appends
               \* resolve() on a promise that is already rejected does nothing
               /\ queue' = queue \o r.tasks \o
                     (IF thrown THEN <<>>
                      ELSE <<Task("resolveThenable", c, NoV, Null, Null, FALSE)>>)
       ELSE /\ calls' = Append(calls, [call EXCEPT !.state = "rejected",
                                                   !.value = TimeExpired])
            /\ UNCHANGED <<chain, height, owner, vals, appends, queue>>

\* the requests a client may submit: address, age of the challenge in
\* seconds (-1: a message without timestamp), signature, star
Requests ==
    {<<"a1", 0, "valid", "s1">>,
     <<"a1", Window, "valid", "s2">>,
     <<"a2", 0, "forged", "s1">>,
     <<"a2", 0, "garbage", "s2">>,
     <<"a1", Window + 1, "valid", "s1">>,
     <<"a2", Window + 1, "forged", "s2">>,
     <<"a2", -1, "valid", "s2">>}

MessageOf(r, t) ==
    IF r[2] >= 0 THEN requestMessageOwnershipVerification(r[1], t - r[2])
    ELSE <<Txt(r[1])>>

SignatureOf(r, message) ==
    CASE r[3] = "valid" -> Sign(r[1], message)
      [] r[3] = "forged" -> Sign("mallory", message)
      [] OTHER -> Garbage

SubmitStar ==
    /\ Len(calls) < MaxCalls
    /\ \E r \in Requests :
         submitStar(r[1], MessageOf(r, now), SignatureOf(r, MessageOf(r, now)), r[4])
    /\ UNCHANGED <<now, queries>>

\* a client that submits fresh messages with verifying signatures only
SubmitValidStar ==
    /\ Len(calls) < MaxCalls
    /\ \E r \in {q \in Requests : q[2] \in 0..Window /\ q[3] = "valid"} :
         submitStar(r[1], MessageOf(r, now), SignatureOf(r, MessageOf(r, now)), r[4])
    /\ UNCHANGED <<now, queries>>

\* a client that passes no message at all
SubmitStarNoMessage ==
    /\ Len(calls) < MaxCalls
    /\ \E address \in Addresses, star \in Stars :
         submitStar(address, NoMessage, Garbage, star)
    /\ UNCHANGED <<now, queries>>

\* the job that chains the submitStar promise to the promise of _addBlock
ResolveThenable ==
    /\ queue # <<>>
    /\ Head(queue).kind = "resolveThenable"
    /\ LET c == Head(queue).id
       IN IF appends[c].state = "done"
          THEN /\ queue' = Tail(queue) \o <<Task("settle", c, NoV, Null, Null, FALSE)>>
               /\ UNCHANGED appends
          ELSE /\ queue' = Tail(queue)
               /\ appends' = [appends EXCEPT ![c].linked = TRUE]
    /\ UNCHANGED <<chain, height, now, calls, vals, queries, owner>>

Range(seq) == {seq[i] : i \in 1..Len(seq)}

\* the reaction that resolves the submitStar promise with the value that
\* _addBlock returned
Settle ==
    /\ queue # <<>>
    /\ Head(queue).kind = "settle"
    /\ LET c == Head(queue).id
       IN calls' = [calls EXCEPT ![c].state = "resolved",
                                 ![c].value = appends[c].value,
                                 ![c].inChain = appends[c].value \in Range(chain)]
    /\ queue' = Tail(queue)
    /\ UNCHANGED <<chain, height, now, appends, vals, queries, owner>>

----------------------------------------------------------------------------
(* getStarsByWalletAddress, lines 203-216 *)

\* the star payloads of the committed blocks of `address`, in chain order
Committed(i) == appends[owner[i]].state = "done"

\* line 210 without the comparison with the address
sameWalletAny(body, address) == "walletAddress" \in DOMAIN body

\* line 210, body.walletAddress == address (undefined for the genesis body)
sameWallet(body, address) ==
    "walletAddress" \in DOMAIN body /\ body.walletAddress = address

GetStarsByWalletAddress ==
    /\ Len(queries) < MaxQueries
    /\ \E address \in Addresses :
         LET q == Len(queries) + 1
         IN /\ queries' = Append(queries,
                  [address |-> address, stars |-> <<>>, pending |-> Len(chain),
                   delivered |-> FALSE, result |-> <<>>, expected |-> <<>>])
            /\ queue' = queue
                  \o [i \in 1..Len(chain) |->
                        Task("starBody", q, NoV, chain[i], Null, FALSE)]
                  \o <<Task("deliverStars", q, NoV, Null, Null, FALSE)>>
    /\ UNCHANGED <<chain, height, now, appends, calls, vals, owner>>

\* lines 209-212, continuation of `await block.getBData()`
StarBody ==
    /\ queue # <<>>
    /\ Head(queue).kind = "starBody"
    /\ LET q == Head(queue).id
           body == getBData(Head(queue).block)
       IN queries' = [queries EXCEPT
             ![q].stars = IF sameWallet(body, queries[q].address)
                          THEN Append(@, body.star) ELSE @,
             ![q].pending = @ - 1]
    /\ queue' = Tail(queue)
    /\ UNCHANGED <<chain, height, now, appends, calls, vals, owner>>

\* what the query is to deliver when it is delivered
ExpectedStars(address) ==
    LET idx == SelectSeq([i \in 1..Len(chain) |-> i],
                   LAMBDA i : /\ Committed(i)
                              /\ "walletAddress" \in DOMAIN decode(chain[i].body)
                              /\ decode(chain[i].body).walletAddress = address)
    IN [k \in 1..Len(idx) |-> decode(chain[idx[k]].body).star]

\* the client's continuation of `await getStarsByWalletAddress(address)`
DeliverStars ==
    /\ queue # <<>>
    /\ Head(queue).kind = "deliverStars"
    /\ LET q == Head(queue).id
       IN queries' = [queries EXCEPT
             ![q].delivered = TRUE,
             ![q].result = queries[q].stars,
             ![q].expected = ExpectedStars(queries[q].address)]
    /\ queue' = Tail(queue)
    /\ UNCHANGED <<chain, height, now, appends, calls, vals, owner>>

----------------------------------------------------------------------------
(* The chain array is a public field (line 26) that holds the block objects *)
(* themselves: code outside the class can assign to the fields of a block. *)

Forged == SHA256(<<>>)

tamper(b, field) ==
    IF field = "body"
    THEN [b EXCEPT !.body = encode([data |-> "tampered"])]
    ELSE [b EXCEPT !.previousBlockHash = Forged]

\* blockchain.chain[i][field] = ..., run by a client while no microtask is
\* pending; the values that _addBlock returned are the same objects
Tamper ==
    /\ queue = <<>>
    /\ Cardinality(Defective(chain)) < MaxTampers
    /\ \E i \in 1..Len(chain), field \in {"body", "previousBlockHash"} :
         LET b == chain[i]
             t == tamper(b, field)
         IN /\ chain' = [chain EXCEPT ![i] = t]
            /\ appends' = [id \in DOMAIN appends |->
                  IF appends[id].value = b
                  THEN [appends[id] EXCEPT !.value = t] ELSE appends[id]]
            /\ calls' = [c \in DOMAIN calls |->
                  IF calls[c].value = b
                  THEN [calls[c] EXCEPT !.value = t] ELSE calls[c]]
    /\ UNCHANGED <<height, now, queue, vals, queries, owner>>

----------------------------------------------------------------------------
(* The clock *)

Tick ==
    /\ now < Now0 + MaxTicks
    /\ now' = now + 1
    /\ UNCHANGED <<chain, height, queue, appends, calls, vals, queries, owner>>

----------------------------------------------------------------------------
(* constructor, lines 25-29, and initializeChain, lines 36-42: the state   *)
(* after `new Blockchain()` returns                                        *)

Constructed ==
    LET st == [chain |-> <<>>, height |-> -1, owner |-> <<>>, vals |-> <<>>]
    IN IF st.height = -1
       THEN addBlockSync(st, Now0, 0, Block(GenesisData))
       ELSE st @@ [tasks |-> <<>>, state |-> "done"]

Init ==
    /\ chain = Constructed.chain
    /\ height = Constructed.height
    /\ owner = Constructed.owner
    /\ vals = Constructed.vals
    /\ queue = Constructed.tasks
    /\ appends = 0 :> AppendRecord(Constructed.state, TRUE, <<>>, -1)
    /\ now = Now0
    /\ calls = <<>>
    /\ queries = <<>>

Core ==
    \/ SubmitStar
    \/ AddBlockPrevMissing
    \/ AddBlockPrevFound
    \/ AddBlockValidated
    \/ ValidateBlock
    \/ ValidatePrev
    \/ ResolveThenable
    \/ Settle

\* the store with clients that submit stars
Next ==
    \/ Core
    \/ Tick

Spec == Init /\ [][Next]_vars

\* ... and clients that validate the chain
NextValidate ==
    \/ Core
    \/ ValidateChain
    \/ ObserveReport

SpecValidate == Init /\ [][NextValidate]_vars

\* ... and clients that query the stars of an address
NextStars ==
    \/ Core
    \/ GetStarsByWalletAddress
    \/ StarBody
    \/ DeliverStars

SpecStars == Init /\ [][NextStars]_vars

\* ... and clients that write to the blocks of the chain
NextTamper ==
    \/ Core
    \/ Tamper

SpecTamper == Init /\ [][NextTamper]_vars

\* the store with clients that submit valid claims, write to the blocks of
\* the chain and validate it
NextTamperValidate ==
    \/ SubmitValidStar
    \/ AddBlockPrevMissing
    \/ AddBlockPrevFound
    \/ AddBlockValidated
    \/ ValidateBlock
    \/ ValidatePrev
    \/ ResolveThenable
    \/ Settle
    \/ ValidateChain
    \/ ObserveReport
    \/ Tamper

SpecTamperValidate == Init /\ [][NextTamperValidate]_vars

\* ... and clients that call submitStar with arguments missing
NextSettle ==
    \/ Core
    \/ SubmitStarNoMessage

SpecSettle == Init /\ [][NextSettle]_vars

----------------------------------------------------------------------------
(* What the claims speak about *)

Calls == 1..Len(calls)

\* the message has the form address:timestamp:tag with a numeric timestamp
WellFormed(c) == Len(calls[c].message) = 3 /\ calls[c].message[2].num

\* the age of the challenge at the time of the call
ElapsedAt(c) == calls[c].at - calls[c].message[2].val

FreshCall(c) == WellFormed(c) /\ ElapsedAt(c) <= 300
ExpiredCall(c) == WellFormed(c) /\ ElapsedAt(c) > 300

Verifies(c) ==
    verify(calls[c].message, calls[c].address, calls[c].signature) = "true"

IsBlock(x) == DOMAIN x = DOMAIN Block(GenesisData)

\* the positions of the chain that the _addBlock execution id has pushed
PushedBy(id) == {i \in 1..Len(chain) : owner[i] = id}

----------------------------------------------------------------------------
\* C1: a submitStar call with a fresh message whose signature does not
\* verify (verification returns false or throws) appends no block: it starts
\* no _addBlock, so the chain and the height are as they were before the call.
C1_SignatureGating ==
    \A c \in Calls :
        FreshCall(c) /\ ~Verifies(c) =>
            /\ c \notin DOMAIN appends
            /\ PushedBy(c) = {}

\* C2: submitStar resolves only with a block that is in the chain when the
\* promise resolves, and only for a call that is no failure; a failure is
\* never reported as a resolved value.
C2_SuccessMeansCommitted ==
    \A c \in Calls :
        calls[c].state = "resolved" =>
            /\ IsBlock(calls[c].value)
            /\ calls[c].inChain
            /\ FreshCall(c)
            /\ Verifies(c)

\* C3: a submitStar call whose message is more than 300 seconds old is
\* rejected with the expired-challenge error whatever the signature is, the
\* verification is not invoked, and the chain, the height, the _addBlock
\* executions and the microtask queue are left as they were; the rejection
\* stands ever after.
C3_Expiry ==
    [][/\ \A c \in 1..Len(calls') :
            (c > Len(calls) /\ WellFormed(c)' /\ ElapsedAt(c)' > 300) =>
                /\ calls'[c].state = "rejected"
                /\ calls'[c].value = TimeExpired
                /\ calls'[c].verification = "none"
                /\ UNCHANGED <<chain, height, appends, queue, owner>>
       /\ \A c \in Calls :
            ExpiredCall(c) => calls'[c] = calls[c] /\ c \notin DOMAIN appends'
      ]_vars

\* C3 witness: an expired call with a valid signature and an expired call
\* with a forged one have both been rejected.
C3_Witness ==
    /\ \E c \in Calls : ExpiredCall(c) /\ Verifies(c) /\ calls[c].state = "rejected"
    /\ \E c \in Calls : ExpiredCall(c) /\ ~Verifies(c) /\ calls[c].state = "rejected"

\* every call made so far has a fresh message and a verifying signature
AllValid == \A c \in Calls : FreshCall(c) /\ Verifies(c)

\* C4: a submitStar call with a fresh message and a verifying signature that
\* is issued while no append is in flight appends exactly one block and
\* resolves with it: the block is in the chain at the position of the former
\* chain length, its height is that length, its previousBlockHash is the
\* hash of the former tip, and its body carries the submitted data.  Stated
\* for the runs in which every call is fresh and verifies.
C4_Admission ==
    \A c \in Calls :
        (/\ AllValid
         /\ c \in DOMAIN appends /\ appends[c].alone
         /\ calls[c].state # "pending") =>
            /\ calls[c].state = "resolved"
            /\ IsBlock(calls[c].value)
            /\ calls[c].value.height = appends[c].preLength
            /\ calls[c].value.previousBlockHash = appends[c].preTip
            /\ decode(calls[c].value.body) =
                  StarData(calls[c].address, calls[c].message,
                           calls[c].signature, calls[c].star)
            /\ PushedBy(c) = {appends[c].preLength + 1}
            /\ chain[appends[c].preLength + 1] = calls[c].value

\* C5: when the result of getStarsByWalletAddress(address) is delivered, it
\* holds exactly the stars of the committed blocks of that address, in chain
\* order; every callback has run by then and nothing is added afterwards.
C5_StarQuery ==
    \A q \in 1..Len(queries) :
        queries[q].delivered =>
            /\ queries[q].result = queries[q].expected
            /\ queries[q].stars = queries[q].result

\* C5 witness: a query has delivered two stars of one address while the
\* chain also holds a block of the other address.
C5_Witness ==
    \E q \in 1..Len(queries) :
        /\ queries[q].delivered
        /\ Len(queries[q].result) = 2
        /\ queries[q].result[1] # queries[q].result[2]
        /\ \E i \in 2..Len(chain) :
              decode(chain[i].body).walletAddress # queries[q].address

\* C6: the genesis block has height 0 and no previous hash, and every later
\* block has the height of its position and the hash of its predecessor as
\* previousBlockHash.
C6_ChainLinkage ==
    /\ chain # <<>>
    /\ chain[1].height = 0
    /\ chain[1].previousBlockHash = Null
    /\ \A i \in 2..Len(chain) :
          /\ chain[i].height = i - 1
          /\ chain[i].previousBlockHash = chain[i - 1].hash

\* C6 witness: a chain of three blocks, built while another append failed.
C6_Witness ==
    /\ Len(chain) = 3
    /\ \E c \in DOMAIN appends : appends[c].value = InvalidBlock

\* C7: whenever no append is in flight, getChainHeight() is the number of
\* blocks minus one.  Stated for the runs in which every call is fresh and
\* verifies.
C7_HeightCounter ==
    AllValid /\ InFlight = {} => getChainHeight = Len(chain) - 1

\* C8: at most one append is in flight at a time: no two _addBlock
\* executions started by submitStar are between their first read of the
\* height and their return at once.
C8_AppendMutualExclusion ==
    \A c, d \in InFlight \ {0} : c = d

\* C9: when the report of validateChain() is observed by its caller, the
\* check of every block has completed, and no error is added to the report
\* afterwards.
C9_ValidationBarrier ==
    \A v \in DOMAIN vals :
        vals[v].observed =>
            /\ vals[v].pendingSeen = 0
            /\ vals[v].errorLog = vals[v].seen

\* the store holds nothing but what successful submissions of valid claims
\* have built
Healthy ==
    /\ AllValid
    /\ \A id \in DOMAIN appends : appends[id].value # InvalidBlock

\* C10: on a chain built by the constructor and successful submitStar calls
\* only, the error list of validateChain() called by a client is empty.
C10_HealthyChainValidatesClean ==
    Healthy =>
        \A v \in DOMAIN vals : v[1] = "ext" => vals[v].errorLog = <<>>

----------------------------------------------------------------------------
\* the heights and hashes a reader may ask for
Heights == -1..(MaxCalls + 2)

SomeHashes ==
    {chain[i].hash : i \in 1..Len(chain)}
        \cup {SHA256(stringify(Block([data |-> "no such block"])))}

\* C14: at every point at which a reader can run, getBlockByHeight(h)
\* returns a block of height h exactly if 0 <= h <= getChainHeight(), and
\* null otherwise.
C14_HeightLookupSnapshot ==
    \A h \in Heights :
        IF 0 <= h /\ h <= getChainHeight
        THEN IsBlock(getBlockByHeight(h)) /\ getBlockByHeight(h).height = h
        ELSE getBlockByHeight(h) = Null

\* C15: getBlockByHash(hash) returns the block of the chain whose hash is
\* the argument when there is one, and null when there is none.
C15_HashLookup ==
    \A hash \in SomeHashes :
        IF \E i \in 1..Len(chain) : chain[i].hash = hash
        THEN /\ IsBlock(getBlockByHash(hash))
             /\ getBlockByHash(hash) \in Range(chain)
             /\ getBlockByHash(hash).hash = hash
        ELSE getBlockByHash(hash) = Null

\* C16: a submitStar call whose message is not of the form
\* address:timestamp:tag with a numeric timestamp is rejected with an error
\* that differs from the expired-challenge error, and starts no append.
C16_MalformedMessage ==
    \A c \in Calls :
        ~WellFormed(c) =>
            /\ calls[c].state = "rejected"
            /\ calls[c].value # TimeExpired
            /\ c \notin DOMAIN appends

\* the tip of a chain: the hash of its last block
Tip(ch) == IF ch # <<>> THEN ch[Len(ch)].hash ELSE Null

\* C18: when an _addBlock execution that ran with no other execution
\* overlapping it returns without having committed its block, the chain and
\* the height counter have the values they had before the call.
C18_FailedAppendNotApplied ==
    \A id \in DOMAIN appends :
        (/\ appends[id].alone
         /\ appends[id].state = "done"
         /\ ~IsBlock(appends[id].value)
         /\ InFlight = {}
         /\ id = Len(calls))
        => /\ height = appends[id].preHeight
           /\ Len(chain) = appends[id].preLength
           /\ Tip(chain) = appends[id].preTip

\* C19: a submitStar call with a fresh message and a verifying signature,
\* made when no append is in flight, commits its block at the index that was
\* the length of the chain before the call, whatever calls preceded it.
C19_Recoverability ==
    \A c \in Calls :
        (/\ FreshCall(c) /\ Verifies(c)
         /\ appends[c].alone
         /\ queue = <<>>)
        => /\ calls[c].state = "resolved"
           /\ IsBlock(calls[c].value)
           /\ appends[c].preLength + 1 \in PushedBy(c)
           /\ chain[appends[c].preLength + 1] = calls[c].value

\* C20: the promise that submitStar returns settles: once no microtask is
\* left to run, no call is still pending; and the append of a call whose
\* promise has been rejected changes nothing in the chain.
C20_Settlement ==
    /\ queue = <<>> => \A c \in Calls : calls[c].state # "pending"
    /\ \A c \in Calls : calls[c].state = "rejected" => PushedBy(c) = {}

----------------------------------------------------------------------------
\* the validations that client code has requested and that have run to
\* their end
Finished == {v \in DOMAIN vals : v[1] = "ext" /\ vals[v].pending = 0}

AtHeight(h) == [height |-> h]

\* C11: when exactly one block, at height h, has had a field changed from
\* outside, the report of validateChain() consists of exactly one error, the
\* invalid-block error for h.  Stated for the chains that successful
\* submissions of valid claims have built.
C11_TamperDetection ==
    Healthy =>
        \A v \in Finished :
            Cardinality(vals[v].defective) = 1 =>
                \E h \in vals[v].defective :
                    vals[v].errorLog = <<InvalidBlockError(AtHeight(h))>>

\* C12: the report of validateChain() holds, for a block at height h > 0 whose
\* hash does not match its content and whose previousBlockHash is not the
\* hash of the block before it, both the invalid-block error and the
\* previous-hash error for h.  Stated for the chains that successful
\* submissions of valid claims have built.
C12_IndependentChecks ==
    Healthy =>
        \A v \in Finished :
            \A h \in vals[v].defective \cap vals[v].unlinked :
                /\ InvalidBlockError(AtHeight(h)) \in Range(vals[v].errorLog)
                /\ PreviousHashError(AtHeight(h)) \in Range(vals[v].errorLog)

\* C13: an _addBlock execution whose validation of the staged chain found an
\* error returns an error and not the block; and when no other execution
\* overlapped it, the chain and the height are what they were before it.
\* Stated for the runs in which every call is fresh and verifies.
C13_RollbackOnViolation ==
    \A id \in DOMAIN appends :
        (/\ AllValid
         /\ appends[id].state = "done"
         /\ <<"add", id>> \in DOMAIN vals
         /\ vals[<<"add", id>>].seen # <<>>) =>
            /\ ~IsBlock(appends[id].value)
            /\ (appends[id].alone /\ InFlight = {} /\ id = Len(calls)) =>
                   /\ height = appends[id].preHeight
                   /\ Len(chain) = appends[id].preLength
                   /\ Tip(chain) = appends[id].preTip

\* the _addBlock executions that have removed their staged block
RolledBack ==
    {id \in DOMAIN appends : /\ appends[id].state = "done"
                             /\ <<"add", id>> \in DOMAIN vals
                             /\ vals[<<"add", id>>].seen # <<>>}

\* C17: no step of the store removes or changes a block whose append has
\* returned, and the block that a rollback removes is the one that the same
\* _addBlock execution has staged.
C17_PrefixStability ==
    [][\/ Tamper
       \/ /\ \A i \in 1..Len(chain) :
               Committed(i) => i <= Len(chain') /\ chain'[i] = chain[i]
          /\ Len(chain') < Len(chain) =>
               /\ Head(queue).kind = "addBlockValidated"
               /\ owner[Len(chain)] = Head(queue).id]_vars

\* a rollback has happened while another append was waiting to stage its
\* block behind a committed block
C17_Witness ==
    /\ RolledBack # {}
    /\ \E id \in InFlight : appends[id].state = "awaitPrev"
    /\ chain # <<>> /\ Committed(Len(chain))

====
